---- MODULE Spec2Model ----
(***************************************************************************)
(* Model of banzaicloud/log-socket, package internal: the websocket        *)
(* listener gateway (Listen), the per-listener Send protocol, ExtractFlow  *)
(* and SeekSlice, as written in internal/listener.go.                      *)
(*                                                                         *)
(* Strings are sequences of atoms.  An atom is one character where the     *)
(* code looks at characters (":" "," "/"), and otherwise a chunk of text   *)
(* that contains none of these characters.                                 *)
(***************************************************************************)
EXTENDS Integers, Sequences, FiniteSets, TLC

VARIABLES
    handler,      \* per request: position of the HTTP handler of Listen
    steps,        \* per request: the admission steps the handler has executed, in order
    usrInfo,      \* per request: listener.usrInfo.Username (result of Authenticate)
    flow,         \* per request: listener.flow (result of ExtractFlow)
    closeHandler, \* per request: TRUE once wsConn.SetCloseHandler has installed the handler
    readLoop,     \* per request: state of the goroutine that calls wsConn.ReadMessage
    connOpen,     \* per request: TRUE while the upgraded wsConn has not been closed by the server
    registry,     \* the ListenerRegistry: FlowReference -> set of listeners
    metrics,      \* the metrics counters
    unregGo,      \* per listener: number of pending `go l.reg.Unregister(l)` goroutines
    dPc,          \* per dispatch: position of the pipeline task delivering one record
    dFlow,        \* per dispatch: the flow the record is dispatched to
    dRec,         \* per dispatch: the record
    dSnap,        \* per dispatch: the listeners returned by the registry lookup
    dCalls,       \* per dispatch: number of Send invocations per listener
    dCur,         \* per dispatch: the listener whose Send is running
    dData,        \* per dispatch: `data` of the running Send
    crashed,      \* TRUE once a goroutine has panicked (the process is gone)
    writeFailed,  \* the listeners for which a write stage of Send has returned an error
    path,         \* ExtractFlow input (parsing specification)
    parsed        \* ExtractFlow output (parsing specification)

vars == <<handler, steps, usrInfo, flow, closeHandler, readLoop, connOpen, registry, metrics,
          unregGo, dPc, dFlow, dRec, dSnap, dCalls, dCur, dData, crashed,
          writeFailed, path, parsed>>

(***************************************************************************)
(* Bounds                                                                  *)
(***************************************************************************)
MaxReqs == 2

MaxDispatches == 2

MaxPathLen == 6

Reqs == 1..MaxReqs

Dispatches == 1..MaxDispatches

(***************************************************************************)
(* Strings                                                                 *)
(***************************************************************************)
\* a ReplaceAll that replaces nothing
ReplaceNone(s, old, new) == s

\* strings.ReplaceAll(s, old, new) for one-character old and new
ReplaceAll(s, old, new) ==
    [i \in 1..Len(s) |-> IF s[i] = old THEN new ELSE s[i]]

\* index of the first sep in s, 0 when there is none
RECURSIVE IndexFrom(_, _, _)
IndexFrom(s, sep, i) ==
    IF i > Len(s) THEN 0
    ELSE IF s[i] = sep THEN i
    ELSE IndexFrom(s, sep, i + 1)

\* strings.Split(s, sep) for a one-character sep: Split("", sep) is [""]
RECURSIVE Split(_, _)
Split(s, sep) ==
    LET i == IndexFrom(s, sep, 1)
    IN  IF i = 0 THEN <<s>>
        ELSE <<SubSeq(s, 1, i - 1)>> \o Split(SubSeq(s, i + 1, Len(s)), sep)

\* strings.TrimLeft(s, cutset) for a one-character cutset
RECURSIVE TrimLeft(_, _)
TrimLeft(s, c) ==
    IF s # <<>> /\ Head(s) = c THEN TrimLeft(Tail(s), c) ELSE s

RECURSIVE SeekFrom(_, _, _)
SeekFrom(slice, str, i) ==
    IF i > Len(slice) THEN -1
    ELSE IF slice[i] = str THEN i - 1
    ELSE SeekFrom(slice, str, i + 1)

\* SeekSlice: the (0-based) index of the first element equal to str, or -1
SeekSlice(slice, str) == SeekFrom(slice, str, 1)

(***************************************************************************)
(* Flow addressing                                                         *)
(***************************************************************************)
KindFlow == <<"flow">>

KindClusterFlow == <<"clusterflow">>

FlowReference(kind, ns, name) == [Kind |-> kind, Namespace |-> ns, Name |-> name]

\* the zero value of FlowReference
NoFlow == FlowReference(<<>>, <<>>, <<>>)

ErrParse == "error parsing listener reg URL"

ErrUnknown == "unknown flow type in listener reg URL"

\* ExtractFlow of internal/listener.go, on req.URL.Path
ExtractFlow(p) ==
    LET elts == Split(TrimLeft(p, "/"), "/")
    IN  IF Len(elts) < 3
        THEN [res |-> NoFlow, err |-> ErrParse]
        ELSE [res |-> FlowReference(elts[1], elts[2], elts[3]), err |-> ""]

\* ExtractFlow of the earlier revision, which returns a NamespacedName
ExtractFlowNamespacedName(p) ==
    LET elts == Split(TrimLeft(p, "/"), "/")
    IN  IF Len(elts) < 2
        THEN [res |-> [Namespace |-> <<>>, Name |-> <<>>], err |-> ErrParse]
        ELSE IF elts[1] = KindFlow
        THEN IF Len(elts) # 3
             THEN [res |-> [Namespace |-> <<>>, Name |-> <<>>], err |-> ErrParse]
             ELSE [res |-> [Namespace |-> elts[2], Name |-> elts[3]], err |-> ""]
        ELSE IF elts[1] = KindClusterFlow
        THEN [res |-> [Namespace |-> <<>>, Name |-> elts[2]], err |-> ""]
        ELSE [res |-> [Namespace |-> <<>>, Name |-> <<>>], err |-> ErrUnknown]

(***************************************************************************)
(* Records                                                                 *)
(***************************************************************************)
\* values of the decoded record (map[string]interface{}): tagged by dynamic type
Nil == [t |-> "nil"]

Str(s) == [t |-> "string", v |-> s]

Num == [t |-> "number"]

Map(f) == [t |-> "map", v |-> f]

\* the label key that holds the comma-separated access list
RBACAllowList == "rbac/allow-list"

\* GetIn(m, keys...): the value at the nested key path, nil when a key is missing
RECURSIVE GetIn(_, _)
GetIn(data, keys) ==
    IF keys = <<>> THEN data
    ELSE IF data.t = "map" /\ Head(keys) \in DOMAIN data.v
    THEN GetIn(data.v[Head(keys)], Tail(keys))
    ELSE Nil

\* Record{Data, RawData} with the access-list label `allow` and pod name `pod`;
\* a nil value means that the key is missing
Record(allow, pod, raw) ==
    LET labels == Map([k \in IF allow.t = "nil" THEN {} ELSE {RBACAllowList} |-> allow])
        kube   == Map([k \in {"labels"} \cup IF pod.t = "nil" THEN {} ELSE {"pod_name"}
                         |-> IF k = "labels" THEN labels ELSE pod])
    IN  [Data |-> Map([k \in {"kubernetes"} |-> kube]), RawData |-> raw]

(***************************************************************************)
(* Metrics                                                                 *)
(***************************************************************************)
MetricNames ==
    {"MListenerTotal", "MListenerRejected", "MListenerApproved", "MListenerRemoved",
     "MLogTransfered", "MLogFiltered", "MBytesTransferred", "MBytesFiltered"}

\* metrics.Listeners(name): one more
Listeners(m, name) == [m EXCEPT ![name] = @ + 1]

\* metrics.Log(name): one more
Log(m, name) == [m EXCEPT ![name] = @ + 1]

\* metrics.Bytes(name, n): n more
Bytes(m, name, n) == [m EXCEPT ![name] = @ + n]

(***************************************************************************)
(* listener.Send, up to the first write                                    *)
(***************************************************************************)
\* fmt.Sprintf(`{"error": "Permission denied to access %s logs for %s"}`, pod, user)
PermissionDenied(pod, user) ==
    <<"{\"error\": \"Permission denied to access ">> \o pod
        \o <<" logs for ">> \o user \o <<"\"}">>

\* a Send that counts the bytes of the payload it substitutes
SendFilteredCountsSubstitute(m, username, r) ==
    LET pod == GetIn(r.Data, <<"kubernetes", "pod_name">>)
        data == IF pod.t = "string" THEN PermissionDenied(pod.v, username) ELSE <<>>
    IN  [ret |-> IF pod.t = "string" THEN "write" ELSE "panic",
         data |-> data,
         metrics |-> Bytes(Log(m, "MLogFiltered"), "MBytesFiltered", Len(data))]

\* Send, lines 120-122: the listener is not on the list.  ret is "panic" when
\* the type assertion on the pod name fails, else "write".
SendFiltered(m, username, r) ==
    LET mf == Bytes(Log(m, "MLogFiltered"), "MBytesFiltered", Len(r.RawData))
        pod == GetIn(r.Data, <<"kubernetes", "pod_name">>)
    IN  IF pod.t # "string"
        THEN [ret |-> "panic", data |-> <<>>, metrics |-> mf]
        ELSE [ret |-> "write", data |-> PermissionDenied(pod.v, username), metrics |-> mf]

\* a Send that counts nothing before it attempts the write
SendTransferredUncounted(m, r) ==
    [ret |-> "write", data |-> r.RawData, metrics |-> m]

\* Send, lines 124-125: the listener is on the list
SendTransferred(m, r) ==
    [ret |-> "write",
     data |-> r.RawData,
     metrics |-> Bytes(Log(m, "MLogTransfered"), "MBytesTransferred", Len(r.RawData))]

\* a Send that drops the ok of the type assertion: a missing list is the empty string
SendPrepareIgnoresOk(m, username, r) ==
    LET allowListStr == GetIn(r.Data, <<"kubernetes", "labels", RBACAllowList>>)
        allowList == Split(IF allowListStr.t = "string" THEN allowListStr.v ELSE <<>>, ",")
    IN  IF SeekSlice(allowList, ReplaceAll(username, ":", "_")) = -1
        THEN SendFiltered(m, username, r)
        ELSE SendTransferred(m, r)

\* Send, lines 111-126: what Send does before it touches the connection.
\* ret is "return" (record withheld), "panic" (failed type assertion) or "write".
SendPrepare(m, username, r) ==
    LET allowListStr == GetIn(r.Data, <<"kubernetes", "labels", RBACAllowList>>)
    IN  IF allowListStr.t # "string"
        THEN [ret |-> "return", data |-> <<>>, metrics |-> m]
        ELSE
        LET allowList == Split(allowListStr.v, ",")
        IN  IF SeekSlice(allowList, ReplaceAll(username, ":", "_")) = -1
            THEN SendFiltered(m, username, r)
            ELSE SendTransferred(m, r)

(***************************************************************************)
(* Inputs                                                                  *)
(***************************************************************************)
\* the value of the auth header: "" when the header is missing
Tokens == {"", "token"}

UserColon == <<"system", ":", "alice">>

UserUnderscore == <<"system", "_", "alice">>

UserPlain == <<"bob">>

\* the identities of the data-rich Send specification
Usernames == {UserColon, UserUnderscore, UserPlain}

NoUser == <<>>

\* what authenticator.Authenticate may return
AuthResults ==
    {[err |-> TRUE, user |-> NoUser], [err |-> FALSE, user |-> UserColon]}

\* request paths of the gateway
RequestPaths ==
    { <<"/", "flow", "/", "ns", "/", "app">>,
      <<"/", "clusterflow", "/", "app">>,
      <<"/", "clusterflow", "/", "ns", "/", "app">>,
      <<"/", "flow", "/", "ns">> }

\* the flows a listener can be bound to
FlowKeys == {ExtractFlow(p).res : p \in {x \in RequestPaths : ExtractFlow(x).err = ""}}

Pod == Str(<<"pod-0">>)

\* the records the pipeline dispatches: access list, pod name, raw payload
Records ==
    { Record(Nil, Pod, <<"x", "y">>),
      Record(Str(<<"bob", ",", "system", "_", "alice">>), Pod, <<"x", "y">>),
      Record(Str(<<"system", ":", "alice">>), Pod, <<"x", "y">>),
      Record(Str(<<"carol">>), Nil, <<"x", "y">>) }

\* the records of the data-rich Send specification
AllowLists ==
    { Nil, Num,
      Str(<<>>),
      Str(<<"bob">>),
      Str(<<"system", ":", "alice">>),
      Str(<<"system", "_", "alice">>),
      Str(<<"carol", ",", "system", "_", "alice">>),
      Str(<<"system", ":", "alice", ",", "bob">>),
      Str(<<"bob", "system", "_", "alice">>) }

PodNames == {Pod, Nil, Num}

RawPayloads == { <<"x">>, <<"x", "y">> }

SendRecords == {Record(a, p, raw) : a \in AllowLists, p \in PodNames, raw \in RawPayloads}

\* no record (an idle dispatch)
NoRecord == Record(Nil, Nil, <<>>)

\* the paths ExtractFlow is exercised on: every path of at most MaxPathLen atoms
PathAtoms == {"/", "flow", "clusterflow", "app"}

PathInputs ==
    {p \in UNION {[1..n -> PathAtoms] : n \in 1..MaxPathLen} : p[1] = "/"}

Unparsed == [res |-> NoFlow, err |-> "not parsed"]

(***************************************************************************)
(* Registry and pipeline                                                   *)
(***************************************************************************)
\* a Flow that answers with kind Flow whatever the kind of the listener's reference
FlowDropsKind(l) == [flow[l] EXCEPT !.Kind = KindFlow]

\* listener.Flow
Flow(l) == flow[l]

\* ListenerRegistry.Register: add l to the set of its flow
Register(reg, l) == [reg EXCEPT ![Flow(l)] = @ \cup {l}]

\* an Unregister that empties the set of the listener's flow
UnregisterClearsFlow(reg, l) == [reg EXCEPT ![Flow(l)] = {}]

\* ListenerRegistry.Unregister: remove l from the set of its flow; absent is a no-op
Unregister(reg, l) == [reg EXCEPT ![Flow(l)] = @ \ {l}]

\* the registry lookup of the dispatch path: the live set at call time
SubscribersFor(reg, f) == reg[f]

Registered == UNION {registry[f] : f \in DOMAIN registry}

(***************************************************************************)
(* Initial state                                                           *)
(***************************************************************************)
InitGateway ==
    /\ handler = [q \in Reqs |-> "new"]
    /\ steps = [q \in Reqs |-> <<>>]
    /\ usrInfo = [q \in Reqs |-> NoUser]
    /\ flow = [q \in Reqs |-> NoFlow]
    /\ closeHandler = [q \in Reqs |-> FALSE]
    /\ readLoop = [q \in Reqs |-> "off"]
    /\ connOpen = [q \in Reqs |-> FALSE]
    /\ registry = [f \in FlowKeys |-> {}]
    /\ metrics = [n \in MetricNames |-> 0]
    /\ unregGo = [q \in Reqs |-> 0]
    /\ dPc = [d \in Dispatches |-> "idle"]
    /\ dFlow = [d \in Dispatches |-> NoFlow]
    /\ dRec = [d \in Dispatches |-> NoRecord]
    /\ dSnap = [d \in Dispatches |-> {}]
    /\ dCalls = [d \in Dispatches |-> [q \in Reqs |-> 0]]
    /\ dCur = [d \in Dispatches |-> 0]
    /\ dData = [d \in Dispatches |-> <<>>]
    /\ crashed = FALSE
    /\ writeFailed = {}

Init ==
    /\ InitGateway
    /\ path = <<>>
    /\ parsed = Unparsed

gatewayVars == <<handler, steps, usrInfo, flow, closeHandler, readLoop, connOpen>>

dispatchVars == <<dPc, dFlow, dRec, dSnap, dCalls, dCur, dData>>

parseVars == <<path, parsed>>

(***************************************************************************)
(* Listen: the HTTP handler                                                *)
(***************************************************************************)
Step(name, ok) == [step |-> name, ok |-> ok]

\* a handler that upgrades the connection before it parses the flow
AdmissionUpgradesFirst(m, tok, auth, p, up) ==
    LET m0 == Listeners(m, "MListenerTotal")
        nn == ExtractFlow(p)
        s1 == <<Step("token", tok # "")>>
        s2 == s1 \o <<Step("authenticate", ~auth.err)>>
        s3 == s2 \o <<Step("upgrade", up)>>
        s4 == s3 \o <<Step("extractFlow", nn.err = "")>>
    IN  IF tok = ""
        THEN [status |-> "403", metrics |-> Listeners(m0, "MListenerRejected"),
              steps |-> s1, usr |-> NoUser, flow |-> NoFlow]
        ELSE IF auth.err
        THEN [status |-> "500", metrics |-> Listeners(m0, "MListenerRejected"),
              steps |-> s2, usr |-> NoUser, flow |-> NoFlow]
        ELSE IF ~up
        THEN [status |-> "upgradeFailed", metrics |-> m0,
              steps |-> s3, usr |-> NoUser, flow |-> NoFlow]
        ELSE IF nn.err # ""
        THEN [status |-> "404", metrics |-> m0,
              steps |-> s4, usr |-> NoUser, flow |-> NoFlow]
        ELSE [status |-> "approved", metrics |-> Listeners(m0, "MListenerApproved"),
              steps |-> s4, usr |-> auth.user, flow |-> nn.res]

\* a handler that logs the upgrade error and goes on without returning
AdmissionIgnoresUpgradeError(m, tok, auth, p, up) ==
    LET m0 == Listeners(m, "MListenerTotal")
        nn == ExtractFlow(p)
        s1 == <<Step("token", tok # "")>>
        s2 == s1 \o <<Step("authenticate", ~auth.err)>>
        s3 == s2 \o <<Step("extractFlow", nn.err = "")>>
        s4 == s3 \o <<Step("upgrade", up)>>
    IN  IF tok = ""
        THEN [status |-> "403", metrics |-> Listeners(m0, "MListenerRejected"),
              steps |-> s1, usr |-> NoUser, flow |-> NoFlow]
        ELSE IF auth.err
        THEN [status |-> "500", metrics |-> Listeners(m0, "MListenerRejected"),
              steps |-> s2, usr |-> NoUser, flow |-> NoFlow]
        ELSE IF nn.err # ""
        THEN [status |-> "404", metrics |-> m0,
              steps |-> s3, usr |-> NoUser, flow |-> NoFlow]
        ELSE [status |-> "approved", metrics |-> Listeners(m0, "MListenerApproved"),
              steps |-> s4, usr |-> auth.user, flow |-> nn.res]

\* a handler that also counts a flow parse failure as a rejection
AdmissionRejectsParseError(m, tok, auth, p, up) ==
    LET m0 == Listeners(m, "MListenerTotal")
        nn == ExtractFlow(p)
        s1 == <<Step("token", tok # "")>>
        s2 == s1 \o <<Step("authenticate", ~auth.err)>>
        s3 == s2 \o <<Step("extractFlow", nn.err = "")>>
        s4 == s3 \o <<Step("upgrade", up)>>
    IN  IF tok = ""
        THEN [status |-> "403", metrics |-> Listeners(m0, "MListenerRejected"),
              steps |-> s1, usr |-> NoUser, flow |-> NoFlow]
        ELSE IF auth.err
        THEN [status |-> "500", metrics |-> Listeners(m0, "MListenerRejected"),
              steps |-> s2, usr |-> NoUser, flow |-> NoFlow]
        ELSE IF nn.err # ""
        THEN [status |-> "404", metrics |-> Listeners(m0, "MListenerRejected"),
              steps |-> s3, usr |-> NoUser, flow |-> NoFlow]
        ELSE IF ~up
        THEN [status |-> "upgradeFailed", metrics |-> m0,
              steps |-> s4, usr |-> NoUser, flow |-> NoFlow]
        ELSE [status |-> "approved", metrics |-> Listeners(m0, "MListenerApproved"),
              steps |-> s4, usr |-> auth.user, flow |-> nn.res]

\* The handler from its entry to the approved counter (lines 25-62), on a request
\* with auth header tok and URL path p, given what Authenticate and Upgrade
\* return.  These steps read and write nothing shared but the counters.
Admission(m, tok, auth, p, up) ==
    LET m0 == Listeners(m, "MListenerTotal")
        nn == ExtractFlow(p)
        s1 == <<Step("token", tok # "")>>
        s2 == s1 \o <<Step("authenticate", ~auth.err)>>
        s3 == s2 \o <<Step("extractFlow", nn.err = "")>>
        s4 == s3 \o <<Step("upgrade", up)>>
    IN  IF tok = ""
        THEN [status |-> "403", metrics |-> Listeners(m0, "MListenerRejected"),
              steps |-> s1, usr |-> NoUser, flow |-> NoFlow]
        ELSE IF auth.err
        THEN [status |-> "500", metrics |-> Listeners(m0, "MListenerRejected"),
              steps |-> s2, usr |-> NoUser, flow |-> NoFlow]
        ELSE IF nn.err # ""
        THEN [status |-> "404", metrics |-> m0,
              steps |-> s3, usr |-> NoUser, flow |-> NoFlow]
        ELSE IF ~up
        THEN [status |-> "upgradeFailed", metrics |-> m0,
              steps |-> s4, usr |-> NoUser, flow |-> NoFlow]
        ELSE [status |-> "approved", metrics |-> Listeners(m0, "MListenerApproved"),
              steps |-> s4, usr |-> auth.user, flow |-> nn.res]

\* lines 23-62: a request arrives and is rejected, aborted, or upgraded and approved
Handle(q) ==
    /\ ~crashed
    /\ handler[q] = "new"
    /\ \E tok \in Tokens, auth \in AuthResults, p \in RequestPaths, up \in BOOLEAN :
        LET a == Admission(metrics, tok, auth, p, up)
        IN  /\ handler' = [handler EXCEPT ![q] = a.status]
            /\ steps' = [steps EXCEPT ![q] = a.steps]
            /\ usrInfo' = [usrInfo EXCEPT ![q] = a.usr]
            /\ flow' = [flow EXCEPT ![q] = a.flow]
            /\ connOpen' = [connOpen EXCEPT ![q] = (a.status = "approved")]
            /\ metrics' = a.metrics
    /\ UNCHANGED <<closeHandler, readLoop, registry, unregGo, crashed, writeFailed>>
    /\ UNCHANGED dispatchVars
    /\ UNCHANGED parseVars

\* lines 63-70: reg.Register(l), and the goroutine that reads from the
\* connection is started (it acts in ReadClose and ReadError)
RegisterListener(q) ==
    /\ ~crashed
    /\ handler[q] = "approved"
    /\ handler' = [handler EXCEPT ![q] = "watching"]
    /\ steps' = [steps EXCEPT ![q] = @ \o <<Step("register", TRUE)>>]
    /\ registry' = Register(registry, q)
    /\ readLoop' = [readLoop EXCEPT ![q] = "running"]
    /\ UNCHANGED <<usrInfo, flow, closeHandler, connOpen, metrics, unregGo, crashed, writeFailed>>
    /\ UNCHANGED dispatchVars
    /\ UNCHANGED parseVars

\* lines 71-76: wsConn.SetCloseHandler, after which the handler returns
SetCloseHandler(q) ==
    /\ ~crashed
    /\ handler[q] = "watching"
    /\ handler' = [handler EXCEPT ![q] = "done"]
    /\ closeHandler' = [closeHandler EXCEPT ![q] = TRUE]
    /\ UNCHANGED <<steps, usrInfo, flow, readLoop, connOpen, registry, metrics, unregGo, crashed,
                   writeFailed>>
    /\ UNCHANGED dispatchVars
    /\ UNCHANGED parseVars

\* ReadMessage receives a close frame: the connection runs the close handler it
\* has (lines 72-75 once installed, else the library's default), and then
\* ReadMessage returns an error, which ends the loop (line 67)
ReadClose(q) ==
    /\ ~crashed
    /\ readLoop[q] = "running"
    /\ readLoop' = [readLoop EXCEPT ![q] = "ended"]
    /\ IF closeHandler[q]
       THEN /\ metrics' = Listeners(metrics, "MListenerRemoved")
            /\ registry' = Unregister(registry, q)
       ELSE UNCHANGED <<metrics, registry>>
    /\ UNCHANGED <<handler, steps, usrInfo, flow, closeHandler, connOpen, unregGo, crashed,
                   writeFailed>>
    /\ UNCHANGED dispatchVars
    /\ UNCHANGED parseVars

\* ReadMessage fails without a close frame (the peer is gone): the loop ends
ReadError(q) ==
    /\ ~crashed
    /\ readLoop[q] = "running"
    /\ readLoop' = [readLoop EXCEPT ![q] = "ended"]
    /\ UNCHANGED <<handler, steps, usrInfo, flow, closeHandler, connOpen, registry, metrics,
                   unregGo, crashed, writeFailed>>
    /\ UNCHANGED dispatchVars
    /\ UNCHANGED parseVars

(***************************************************************************)
(* The pipeline's dispatch and listener.Send                               *)
(***************************************************************************)
\* a Send that logs the write error and starts no goroutine
ScheduleNothing(u, l) == u

\* lines 146-147: `go l.reg.Unregister(l)`, one more goroutine to run
ScheduleUnregister(u, l) == [u EXCEPT ![l] = @ + 1]

\* the Send of dispatch d is over: back to the pipeline's loop
SendReturns(d) ==
    /\ dPc' = [dPc EXCEPT ![d] = "iter"]
    /\ dCur' = [dCur EXCEPT ![d] = 0]
    /\ dData' = [dData EXCEPT ![d] = <<>>]

\* the pipeline takes a record for flow f and looks up the listeners of f
DispatchOf(d, records) ==
    /\ ~crashed
    /\ dPc[d] = "idle"
    /\ \E f \in FlowKeys, r \in records :
        /\ dFlow' = [dFlow EXCEPT ![d] = f]
        /\ dRec' = [dRec EXCEPT ![d] = r]
        /\ dSnap' = [dSnap EXCEPT ![d] = SubscribersFor(registry, f)]
    /\ dPc' = [dPc EXCEPT ![d] = "iter"]
    /\ UNCHANGED <<dCalls, dCur, dData>>
    /\ UNCHANGED <<registry, metrics, unregGo, crashed, writeFailed>>
    /\ UNCHANGED gatewayVars
    /\ UNCHANGED parseVars

Dispatch(d) == DispatchOf(d, Records)

\* the pipeline calls l.Send(r) on a listener of the snapshot; Send runs from
\* line 108 to the return of NextWriter (line 132)
Send(d, l) ==
    /\ ~crashed
    /\ dPc[d] = "iter"
    /\ l \in dSnap[d]
    /\ dCalls[d][l] = 0
    /\ dCalls' = [dCalls EXCEPT ![d][l] = @ + 1]
    /\ LET prep == SendPrepare(metrics, usrInfo[l], dRec[d])
       IN  /\ metrics' = prep.metrics
           /\ crashed' = (prep.ret = "panic")
           /\ IF prep.ret # "write"
              THEN /\ SendReturns(d)
                   /\ UNCHANGED <<unregGo, writeFailed>>
              ELSE \E err \in BOOLEAN :
                    IF err
                    THEN /\ SendReturns(d)
                         /\ unregGo' = ScheduleUnregister(unregGo, l)
                         /\ writeFailed' = writeFailed \cup {l}
                    ELSE /\ dPc' = [dPc EXCEPT ![d] = "write"]
                         /\ dCur' = [dCur EXCEPT ![d] = l]
                         /\ dData' = [dData EXCEPT ![d] = prep.data]
                         /\ UNCHANGED <<unregGo, writeFailed>>
    /\ UNCHANGED <<dFlow, dRec, dSnap, registry>>
    /\ UNCHANGED gatewayVars
    /\ UNCHANGED parseVars

\* a Write whose error is raised to the caller of Send instead of being logged
WriteBodyPanics(d) ==
    /\ ~crashed
    /\ dPc[d] = "write"
    /\ \E err \in BOOLEAN :
        IF err
        THEN /\ writeFailed' = writeFailed \cup {dCur[d]}
             /\ crashed' = TRUE
             /\ UNCHANGED <<dPc, dCur, dData, unregGo>>
        ELSE /\ dPc' = [dPc EXCEPT ![d] = "close"]
             /\ UNCHANGED <<dCur, dData, unregGo, writeFailed, crashed>>
    /\ UNCHANGED <<dFlow, dRec, dSnap, dCalls, registry, metrics>>
    /\ UNCHANGED gatewayVars
    /\ UNCHANGED parseVars

\* lines 134-137: wc.Write(data)
WriteBody(d) ==
    /\ ~crashed
    /\ dPc[d] = "write"
    /\ \E err \in BOOLEAN :
        IF err
        THEN /\ SendReturns(d)
             /\ unregGo' = ScheduleUnregister(unregGo, dCur[d])
             /\ writeFailed' = writeFailed \cup {dCur[d]}
        ELSE /\ dPc' = [dPc EXCEPT ![d] = "close"]
             /\ UNCHANGED <<dCur, dData, unregGo, writeFailed>>
    /\ UNCHANGED <<dFlow, dRec, dSnap, dCalls, registry, metrics, crashed>>
    /\ UNCHANGED gatewayVars
    /\ UNCHANGED parseVars

\* a Send without the return of line 144: a flushed frame falls through to the
\* unregister label
CloseFrameFallsThrough(d) ==
    /\ ~crashed
    /\ dPc[d] = "close"
    /\ \E err \in BOOLEAN :
        IF err
        THEN /\ unregGo' = ScheduleUnregister(unregGo, dCur[d])
             /\ writeFailed' = writeFailed \cup {dCur[d]}
        ELSE /\ unregGo' = ScheduleUnregister(unregGo, dCur[d])
             /\ UNCHANGED writeFailed
    /\ SendReturns(d)
    /\ UNCHANGED <<dFlow, dRec, dSnap, dCalls, registry, metrics, crashed>>
    /\ UNCHANGED gatewayVars
    /\ UNCHANGED parseVars

\* lines 139-144: wc.Close()
CloseFrame(d) ==
    /\ ~crashed
    /\ dPc[d] = "close"
    /\ \E err \in BOOLEAN :
        IF err
        THEN /\ unregGo' = ScheduleUnregister(unregGo, dCur[d])
             /\ writeFailed' = writeFailed \cup {dCur[d]}
        ELSE UNCHANGED <<unregGo, writeFailed>>
    /\ SendReturns(d)
    /\ UNCHANGED <<dFlow, dRec, dSnap, dCalls, registry, metrics, crashed>>
    /\ UNCHANGED gatewayVars
    /\ UNCHANGED parseVars

\* the pipeline has called Send on every listener of the snapshot
DispatchDone(d) ==
    /\ ~crashed
    /\ dPc[d] = "iter"
    /\ \A l \in dSnap[d] : dCalls[d][l] # 0
    /\ dPc' = [dPc EXCEPT ![d] = "done"]
    /\ dFlow' = [dFlow EXCEPT ![d] = NoFlow]
    /\ dRec' = [dRec EXCEPT ![d] = NoRecord]
    /\ dSnap' = [dSnap EXCEPT ![d] = {}]
    /\ dCalls' = [dCalls EXCEPT ![d] = [q \in Reqs |-> 0]]
    /\ UNCHANGED <<dCur, dData>>
    /\ UNCHANGED <<registry, metrics, unregGo, crashed, writeFailed>>
    /\ UNCHANGED gatewayVars
    /\ UNCHANGED parseVars

\* line 147: a scheduled `go l.reg.Unregister(l)` runs
AsyncUnregister(l) ==
    /\ ~crashed
    /\ unregGo[l] > 0
    /\ unregGo' = [unregGo EXCEPT ![l] = @ - 1]
    /\ registry' = Unregister(registry, l)
    /\ UNCHANGED <<metrics, crashed, writeFailed>>
    /\ UNCHANGED gatewayVars
    /\ UNCHANGED dispatchVars
    /\ UNCHANGED parseVars

(***************************************************************************)
(* Specifications                                                          *)
(***************************************************************************)
Next ==
    \/ \E q \in Reqs : Handle(q)
    \/ \E q \in Reqs : RegisterListener(q)
    \/ \E q \in Reqs : SetCloseHandler(q)
    \/ \E q \in Reqs : ReadClose(q)
    \/ \E q \in Reqs : ReadError(q)
    \/ \E d \in Dispatches : Dispatch(d)
    \/ \E d \in Dispatches, l \in Reqs : Send(d, l)
    \/ \E d \in Dispatches : WriteBody(d)
    \/ \E d \in Dispatches : CloseFrame(d)
    \/ \E d \in Dispatches : DispatchDone(d)
    \/ \E l \in Reqs : AsyncUnregister(l)

Spec == Init /\ [][Next]_vars

\* the gateway alone: concurrent requests through Listen's handler, and the read
\* loops of the admitted listeners
NextListen ==
    \/ \E q \in Reqs : Handle(q)
    \/ \E q \in Reqs : RegisterListener(q)
    \/ \E q \in Reqs : SetCloseHandler(q)
    \/ \E q \in Reqs : ReadClose(q)
    \/ \E q \in Reqs : ReadError(q)

SpecListen == Init /\ [][NextListen]_vars

\* ExtractFlow applied to one path
InitParse ==
    /\ InitGateway
    /\ path \in PathInputs
    /\ parsed = Unparsed

ParsePath ==
    /\ parsed = Unparsed
    /\ parsed' = ExtractFlow(path)
    /\ UNCHANGED path
    /\ UNCHANGED <<registry, metrics, unregGo, crashed, writeFailed>>
    /\ UNCHANGED gatewayVars
    /\ UNCHANGED dispatchVars

NextParse == ParsePath

SpecParse == InitParse /\ [][NextParse]_vars

\* Send on admitted listeners: every listener has been admitted to the same
\* flow under some identity, its handler has returned, and the pipeline
\* dispatches one record at a time, drawn from SendRecords
SendFlow == ExtractFlow(<<"/", "flow", "/", "ns", "/", "app">>).res

Admitted(u) ==
    Admission([n \in MetricNames |-> 0], "token", [err |-> FALSE, user |-> u],
              <<"/", "flow", "/", "ns", "/", "app">>, TRUE)

InitSend ==
    /\ handler = [q \in Reqs |-> "done"]
    /\ usrInfo \in [Reqs -> Usernames]
    /\ steps = [q \in Reqs |-> Admitted(usrInfo[q]).steps \o <<Step("register", TRUE)>>]
    /\ flow = [q \in Reqs |-> Admitted(usrInfo[q]).flow]
    /\ closeHandler = [q \in Reqs |-> TRUE]
    /\ readLoop = [q \in Reqs |-> "running"]
    /\ connOpen = [q \in Reqs |-> TRUE]
    /\ registry = [f \in FlowKeys |-> IF f = SendFlow THEN Reqs ELSE {}]
    /\ metrics = [n \in MetricNames |->
                    IF n \in {"MListenerTotal", "MListenerApproved"} THEN MaxReqs ELSE 0]
    /\ unregGo = [q \in Reqs |-> 0]
    /\ dPc = [d \in Dispatches |-> "idle"]
    /\ dFlow = [d \in Dispatches |-> NoFlow]
    /\ dRec = [d \in Dispatches |-> NoRecord]
    /\ dSnap = [d \in Dispatches |-> {}]
    /\ dCalls = [d \in Dispatches |-> [q \in Reqs |-> 0]]
    /\ dCur = [d \in Dispatches |-> 0]
    /\ dData = [d \in Dispatches |-> <<>>]
    /\ crashed = FALSE
    /\ writeFailed = {}
    /\ path = <<>>
    /\ parsed = Unparsed

DispatchRich(d) == DispatchOf(d, SendRecords)

\* the one dispatch of the Send specification
SendDispatches == {1}

NextSend ==
    \/ \E d \in SendDispatches : DispatchRich(d)
    \/ \E d \in SendDispatches, l \in Reqs : Send(d, l)
    \/ \E d \in SendDispatches : WriteBody(d)
    \/ \E d \in SendDispatches : CloseFrame(d)
    \/ \E d \in SendDispatches : DispatchDone(d)
    \/ \E l \in Reqs : AsyncUnregister(l)

SpecSend == InitSend /\ [][NextSend]_vars

\* a started goroutine is eventually run by the Go scheduler
Fairness == \A l \in Reqs : WF_vars(AsyncUnregister(l))

SpecSendFair == SpecSend /\ Fairness

(***************************************************************************)
(* Properties of Send                                                      *)
(***************************************************************************)
AccessList(r) == GetIn(r.Data, <<"kubernetes", "labels", RBACAllowList>>)

PodOf(r) == GetIn(r.Data, <<"kubernetes", "pod_name">>)

\* the entries of a comma-separated list
Entries(str) == {Split(str, ",")[i] : i \in 1..Len(Split(str, ","))}

Underscored(str) == [i \in 1..Len(str) |-> IF str[i] = ":" THEN "_" ELSE str[i]]

\* the identity, colons replaced by underscores, is among the access-list entries
Authorized(user, r) ==
    /\ AccessList(r).t = "string"
    /\ Underscored(user) \in Entries(AccessList(r).v)

\* dispatch d is in a Send that holds the payload it writes
Writing(d) == dPc[d] \in {"write", "close"}

\* the step is a call of Send by dispatch d on listener l
SendStep(d, l) == dCalls'[d][l] = dCalls[d][l] + 1

\* C1: every Send on a record with a string access list goes on to write a
\* payload (unless the connection refuses the writer), and the payload is the
\* raw payload if and only if the listener's identity, colons replaced by
\* underscores, is an entry of the list, and is otherwise the permission-denied
\* object naming the record's pod and the listener's identity; no unauthorized
\* listener is ever written a raw payload.
C1_PayloadByAuthorization ==
    /\ [](\A d \in Dispatches :
            Writing(d) =>
                LET l == dCur[d]
                    r == dRec[d]
                IN  /\ AccessList(r).t = "string"
                    /\ Authorized(usrInfo[l], r) <=> dData[d] = r.RawData
                    /\ ~Authorized(usrInfo[l], r) /\ PodOf(r).t = "string" =>
                           dData[d] = <<"{\"error\": \"Permission denied to access ">>
                                           \o PodOf(r).v \o <<" logs for ">>
                                           \o usrInfo[l] \o <<"\"}">>)
    /\ [][\A d \in Dispatches, l \in Reqs :
            SendStep(d, l) /\ AccessList(dRec[d]).t = "string" =>
                \/ l \in writeFailed' /\ l \notin writeFailed
                \/ dPc'[d] = "write" /\ dCur'[d] = l]_vars

HasColon(str) == \E i \in 1..Len(str) : str[i] = ":"

\* C2 as stated: both sides are normalized, so an identity with colons is
\* authorized by a list that holds it written with colons or with underscores
C2_BothSidesNormalized ==
    \A d \in Dispatches :
        Writing(d) /\ HasColon(usrInfo[dCur[d]]) =>
            LET user == usrInfo[dCur[d]]
                r == dRec[d]
            IN  (\E e \in Entries(AccessList(r).v) : Underscored(e) = Underscored(user))
                    => dData[d] = r.RawData

\* C2 amended: only the listener's identity is normalized; the access-list
\* entries are compared as they are, so an identity with colons is authorized
\* exactly when the list holds it written with underscores
C2_IdentityNormalizedOnly ==
    \A d \in Dispatches :
        Writing(d) /\ HasColon(usrInfo[dCur[d]]) =>
            LET user == usrInfo[dCur[d]]
                r == dRec[d]
            IN  /\ dData[d] = r.RawData
                    <=> \E e \in Entries(AccessList(r).v) : e = Underscored(user)
                /\ (/\ user \in Entries(AccessList(r).v)
                    /\ Underscored(user) \notin Entries(AccessList(r).v))
                       => dData[d] # r.RawData

\* C2 witness: an identity with colons is written the raw payload of a record
\* whose list holds the identity with underscores
C2_Witness ==
    \E d \in Dispatches :
        /\ dPc[d] = "close"
        /\ usrInfo[dCur[d]] = UserColon
        /\ UserUnderscore \in Entries(AccessList(dRec[d]).v)
        /\ UserColon \notin Entries(AccessList(dRec[d]).v)
        /\ dData[d] = dRec[d].RawData

\* C5: a Send on a record with a string access list updates exactly one counter
\* pair: transferred (by 1 and by the raw length) when the listener is
\* authorized, filtered (by 1 and by the raw length) when it is not; every other
\* counter keeps its value.
C5_OneCounterPair ==
    [][\A d \in Dispatches, l \in Reqs :
        SendStep(d, l) /\ AccessList(dRec[d]).t = "string" =>
            LET n == Len(dRec[d].RawData)
            IN  IF Authorized(usrInfo[l], dRec[d])
                THEN metrics' = [metrics EXCEPT !["MLogTransfered"] = @ + 1,
                                                !["MBytesTransferred"] = @ + n]
                ELSE metrics' = [metrics EXCEPT !["MLogFiltered"] = @ + 1,
                                                !["MBytesFiltered"] = @ + n]]_vars

\* C5 witness: a denied Send has counted the raw length, which differs from the
\* length of the payload it substitutes
C5_Witness ==
    \E d \in Dispatches :
        /\ dPc[d] = "write"
        /\ ~Authorized(usrInfo[dCur[d]], dRec[d])
        /\ Len(dData[d]) # Len(dRec[d].RawData)
        /\ metrics["MLogFiltered"] = 1
        /\ metrics["MBytesFiltered"] = Len(dRec[d].RawData)
        /\ metrics["MLogTransfered"] = 0
        /\ metrics["MBytesTransferred"] = 0

\* C6: a Send on a record whose access list is absent or not a string obtains no
\* writer, changes no counter, schedules no unregistration and leaves the
\* registry and the listener's connection as they are.
C6_WithheldLeavesAllUnchanged ==
    [][\A d \in Dispatches, l \in Reqs :
        SendStep(d, l) /\ AccessList(dRec[d]).t # "string" =>
            /\ dPc'[d] = "iter"
            /\ dCur'[d] = 0
            /\ metrics' = metrics
            /\ unregGo' = unregGo
            /\ registry' = registry
            /\ readLoop' = readLoop
            /\ crashed' = crashed]_vars

\* C6 witness: Send has returned on a registered listener for a record whose
\* access list is a number, with no counter moved
C6_Witness ==
    \E d \in Dispatches, l \in Reqs :
        /\ dPc[d] = "iter"
        /\ dCalls[d][l] = 1
        /\ AccessList(dRec[d]).t = "number"
        /\ l \in registry[flow[l]]
        /\ unregGo[l] = 0
        /\ metrics["MLogFiltered"] = 0
        /\ metrics["MLogTransfered"] = 0

(***************************************************************************)
(* Properties of ExtractFlow                                               *)
(***************************************************************************)
\* the segments of a path, leading separators dropped
Segments(p) == Split(TrimLeft(p, "/"), "/")

\* C3: parsing yields a FlowReference exactly for /flow/<ns>/<name> (Kind Flow)
\* and /clusterflow/<name> (Kind ClusterFlow, empty Namespace); every other
\* segment count and every other first segment yields an error and the zero
\* FlowReference.  (Stated for the paths whose segments are all non-empty.)
C3_TwoShapesOnly ==
    parsed # Unparsed /\ (\A i \in 1..Len(Segments(path)) : Segments(path)[i] # <<>>) =>
        LET elts == Segments(path)
        IN  IF elts[1] = KindFlow /\ Len(elts) = 3
            THEN /\ parsed.err = ""
                 /\ parsed.res = FlowReference(KindFlow, elts[2], elts[3])
            ELSE IF elts[1] = KindClusterFlow /\ Len(elts) = 2
            THEN /\ parsed.err = ""
                 /\ parsed.res = FlowReference(KindClusterFlow, <<>>, elts[2])
            ELSE /\ parsed.err # ""
                 /\ parsed.res = NoFlow

(***************************************************************************)
(* Properties of the write-failure path and of Unregister                  *)
(***************************************************************************)
\* the step is a write stage of Send failing for listener l
WriteFails(l) == l \notin writeFailed /\ l \in writeFailed'

\* C4: when a write stage of Send fails, Send returns in that very step, with
\* the registry untouched and the unregistration left to a goroutine; and the
\* listener is eventually absent from the registry (if the process lives on).
C4_FailedWriteUnregistersAsync ==
    /\ [][\A l \in Reqs :
            WriteFails(l) =>
                /\ \E d \in Dispatches :
                    /\ dPc[d] \in {"iter", "write", "close"}
                    /\ dPc'[d] = "iter"
                    /\ dCur'[d] = 0
                /\ unregGo'[l] = unregGo[l] + 1
                /\ registry' = registry]_vars
    /\ \A l \in Reqs : [](l \in writeFailed => <>(l \notin Registered \/ crashed))

\* C4 witness: Send has returned after a failed write while the listener is
\* still registered and its unregistration has not run yet
C4_Witness ==
    \E d \in Dispatches, l \in Reqs :
        /\ l \in writeFailed
        /\ unregGo[l] = 1
        /\ l \in Registered
        /\ dPc[d] = "iter"
        /\ dCalls[d][l] = 1

\* the step is a call of Unregister on l: by a goroutine of Send, or by the
\* close handler
UnregisterCalled(l) ==
    \/ unregGo'[l] = unregGo[l] - 1
    \/ /\ readLoop[l] = "running"
       /\ readLoop'[l] = "ended"
       /\ metrics'["MListenerRemoved"] = metrics["MListenerRemoved"] + 1

\* C7: every call of Unregister, by the close handler or by the write-failure
\* path, first or repeated, completes, leaves the listener absent from the
\* registry and changes the registration of no other listener.
C7_UnregisterIdempotent ==
    [][\A l \in Reqs :
        UnregisterCalled(l) =>
            /\ l \notin Registered'
            /\ \A f \in DOMAIN registry : registry'[f] \ {l} = registry[f] \ {l}
            /\ crashed' = crashed]_vars

\* C7 witness: the close handler and a goroutine of Send have both called
\* Unregister on l, and another listener of the same flow is still registered
C7_Witness ==
    \E l \in Reqs, o \in Reqs :
        /\ l # o
        /\ flow[o] = flow[l]
        /\ l \in writeFailed
        /\ unregGo[l] = 0
        /\ readLoop[l] = "ended"
        /\ readLoop[o] = "running"
        /\ metrics["MListenerRemoved"] = 1
        /\ l \notin Registered
        /\ o \in Registered

(***************************************************************************)
(* Properties of the admission sequence                                    *)
(***************************************************************************)
\* the i-th step request q has executed is `name`, and it succeeded
Passed(q, i, name) == Len(steps[q]) >= i /\ steps[q][i] = Step(name, TRUE)

PassedAllFour(q) ==
    /\ Passed(q, 1, "token")
    /\ Passed(q, 2, "authenticate")
    /\ Passed(q, 3, "extractFlow")
    /\ Passed(q, 4, "upgrade")

\* C8: the upgrade is attempted only after the token check, the authentication
\* and the flow parsing have succeeded, in this order; the listener is
\* registered only after the upgrade has succeeded as well.
C8_AdmissionOrder ==
    \A q \in Reqs :
        /\ \A i \in 1..Len(steps[q]) :
            /\ steps[q][i].step = "upgrade" =>
                /\ i = 4
                /\ Passed(q, 1, "token")
                /\ Passed(q, 2, "authenticate")
                /\ Passed(q, 3, "extractFlow")
            /\ steps[q][i].step = "register" => i = 5 /\ PassedAllFour(q)
        /\ q \in Registered => Len(steps[q]) = 5 /\ steps[q][5].step = "register"

\* C8 witness: one request is registered, another was stopped at the upgrade
C8_Witness ==
    \E q \in Reqs, o \in Reqs :
        /\ q \in Registered
        /\ Len(steps[q]) = 5
        /\ handler[o] = "upgradeFailed"
        /\ steps[o][4] = Step("upgrade", FALSE)

FailedStatus == {"403", "500", "404", "upgradeFailed"}

\* C9: an admission attempt that fails leaves the registry as it was, and the
\* registry only ever holds listeners of requests that passed all four steps.
C9_FailedAdmissionLeavesRegistry ==
    /\ [][\A q \in Reqs :
            handler[q] = "new" /\ handler'[q] \in FailedStatus => registry' = registry]_vars
    /\ [](\A q \in Reqs :
            /\ handler[q] \in FailedStatus => q \notin Registered
            /\ q \in Registered => PassedAllFour(q) /\ handler[q] \in {"watching", "done"})

\* C9 witness: a request has failed while another request's listener is registered
C9_Witness ==
    \E q \in Reqs, o \in Reqs :
        /\ handler[q] = "404"
        /\ o \in Registered
        /\ Registered = {o}

(***************************************************************************)
(* Properties of the dispatch                                              *)
(***************************************************************************)
\* C10: a dispatch to flow F takes every listener registered for F, calls Send
\* exactly once on each of them, whatever the Sends before it did, and never
\* calls Send on a listener bound to another flow.
C10_DispatchSendsOncePerListener ==
    /\ [](\A d \in Dispatches, l \in Reqs :
            /\ dCalls[d][l] <= 1
            /\ dCalls[d][l] = 1 => flow[l] = dFlow[d] /\ l \in dSnap[d])
    /\ [][\A d \in Dispatches :
            dPc[d] = "idle" /\ dPc'[d] = "iter" =>
                dSnap'[d] = {l \in Registered : flow[l] = dFlow'[d]}]_vars
    /\ [][\A d \in Dispatches :
            dPc[d] = "iter" /\ dPc'[d] = "done" =>
                \A l \in dSnap[d] : dCalls[d][l] = 1]_vars
    /\ [](\A d \in Dispatches :
            \A l \in dSnap[d] : dCalls[d][l] = 0 => ~crashed)

(***************************************************************************)
(* Properties of concurrent Sends on one listener                          *)
(***************************************************************************)
\* C11: no two Send calls on the same listener are between obtaining the frame
\* writer (NextWriter) and finalizing the frame (Close) at the same time.
C11_WritesNeverInterleave ==
    \A d1 \in Dispatches, d2 \in Dispatches :
        d1 # d2 /\ Writing(d1) /\ Writing(d2) => dCur[d1] # dCur[d2]

(***************************************************************************)
(* Properties of the close handler and of the read loop                    *)
(***************************************************************************)
\* C12: once the read loop of an admitted listener has terminated (on a close
\* frame or on a read error, before or after the close handler was installed),
\* the removed counter has been incremented for it and Unregister has been
\* called on it: the listener is not registered.
C12_CloseAlwaysUnregisters ==
    /\ \A q \in Reqs : readLoop[q] = "ended" => q \notin Registered
    /\ metrics["MListenerRemoved"] = Cardinality({q \in Reqs : readLoop[q] = "ended"})

(***************************************************************************)
(* Properties of the registry's membership                                 *)
(***************************************************************************)
\* Register has been called for the listener of request q
RegisterCalled(q) == Len(steps[q]) = 5 /\ steps[q][5] = Step("register", TRUE)

\* C13: a listener is only ever in the set of its own flow, hence in at most one
\* set, and only after its Register call; a listener that has been registered
\* and is no longer in the registry is never put back by any later step.
C13_MembershipOwnFlowNoResurrection ==
    /\ [](\A f \in DOMAIN registry : \A l \in registry[f] :
            /\ f = flow[l]
            /\ RegisterCalled(l))
    /\ [][\A l \in Reqs :
            RegisterCalled(l) /\ l \notin Registered => l \notin Registered']_vars

\* C13 witness: listener l was registered and then unregistered by its close
\* handler, a Send on it has failed since and its goroutine has run, and l is in
\* no set while a listener of another flow is registered
C13_Witness ==
    \E l \in Reqs, o \in Reqs :
        /\ RegisterCalled(l)
        /\ readLoop[l] = "ended"
        /\ metrics["MListenerRemoved"] = 1
        /\ l \in writeFailed
        /\ unregGo[l] = 0
        /\ \A f \in DOMAIN registry : l \notin registry[f]
        /\ o \in Registered
        /\ flow[o] # flow[l]

(***************************************************************************)
(* Properties of the admission counters                                    *)
(***************************************************************************)
\* the number of requests whose handler is at one of the given positions
CountAt(positions) == Cardinality({q \in Reqs : handler[q] \in positions})

\* C14 as stated: rejected counts the requests without token or with failed
\* authentication and no others, and approved always equals the number of
\* Register calls made
C14_ApprovedEqualsRegisterCalls ==
    /\ metrics["MListenerRejected"] = CountAt({"403", "500"})
    /\ metrics["MListenerApproved"] = Cardinality({q \in Reqs : RegisterCalled(q)})

\* C14 amended: rejected counts the requests without token or with failed
\* authentication and no others; approved is incremented once for each request
\* that passed all four steps, right before its Register call, so it equals the
\* number of Register calls made plus the number of requests that have been
\* counted and have not called Register yet
C14_ApprovedCountedBeforeRegister ==
    /\ metrics["MListenerRejected"] = CountAt({"403", "500"})
    /\ metrics["MListenerTotal"] = CountAt({"403", "500", "404", "upgradeFailed",
                                            "approved", "watching", "done"})
    /\ metrics["MListenerApproved"] = CountAt({"approved", "watching", "done"})
    /\ metrics["MListenerApproved"] =
           Cardinality({q \in Reqs : RegisterCalled(q)}) + CountAt({"approved"})
    /\ \A q \in Reqs : RegisterCalled(q) <=> handler[q] \in {"watching", "done"}

\* C14 witness: one request failed at flow parsing and another is registered,
\* with no rejection and one approval counted
C14_Witness ==
    \E q \in Reqs, o \in Reqs :
        /\ handler[q] = "404"
        /\ RegisterCalled(o)
        /\ metrics["MListenerRejected"] = 0
        /\ metrics["MListenerApproved"] = 1
        /\ metrics["MListenerTotal"] = 2

(***************************************************************************)
(* Properties of the write-failure path towards the other listeners        *)
(***************************************************************************)
\* the payload Send writes to listener l for record r when pod_name is a string
PayloadFor(l, r) ==
    IF Authorized(usrInfo[l], r)
    THEN r.RawData
    ELSE <<"{\"error\": \"Permission denied to access ">> \o PodOf(r).v
            \o <<" logs for ">> \o usrInfo[l] \o <<"\"}">>

\* C15: a failing write stage of Send on listener l is not raised to the
\* dispatching caller (the process lives on and the dispatch goes on with its
\* snapshot), it changes no registration in that step, the only listener it
\* ever gets removed is l, and the listeners sent to after the failure are
\* written the payload they are entitled to.
C15_WriteFailureAbsorbed ==
    /\ [][\A l \in Reqs :
            WriteFails(l) =>
                /\ crashed' = crashed
                /\ registry' = registry
                /\ \E d \in Dispatches :
                    /\ dPc[d] \in {"iter", "write", "close"}
                    /\ dPc'[d] = "iter"
                    /\ dSnap'[d] = dSnap[d]
                    /\ dRec'[d] = dRec[d]]_vars
    /\ [][\A o \in Reqs :
            o \in Registered /\ o \notin Registered' => o \in writeFailed]_vars
    /\ [](\A d \in Dispatches :
            Writing(d) /\ writeFailed \ {dCur[d]} # {} =>
                /\ PodOf(dRec[d]).t = "string" \/ Authorized(usrInfo[dCur[d]], dRec[d])
                /\ dData[d] = PayloadFor(dCur[d], dRec[d]))

\* C15 witness: in one dispatch the Send on l has failed and l has been removed,
\* and the Send on another listener has then written the raw payload while that
\* listener is still registered
C15_Witness ==
    \E d \in Dispatches, l \in Reqs, o \in Reqs :
        /\ l # o
        /\ l \in writeFailed
        /\ dCalls[d][l] = 1
        /\ unregGo[l] = 0
        /\ l \notin Registered
        /\ dPc[d] = "close"
        /\ dCur[d] = o
        /\ dData[d] = dRec[d].RawData
        /\ o \in Registered
        /\ o \notin writeFailed

(***************************************************************************)
(* Properties of the connection after a write failure                      *)
(***************************************************************************)
\* C16: once a write stage of Send has failed for a listener and the
\* unregistration it scheduled has run, the listener's connection is closed, not
\* merely absent from the registry.
C16_FailedWriteClosesConnection ==
    \A l \in Reqs :
        l \in writeFailed /\ unregGo[l] = 0 => ~connOpen[l]

(***************************************************************************)
(* Properties of the flow references of registered listeners               *)
(***************************************************************************)
\* C17: the FlowReference of every registered listener has kind Flow or
\* ClusterFlow, and an empty Namespace if and only if its kind is ClusterFlow.
C17_RegisteredFlowWellFormed ==
    \A l \in Registered :
        /\ flow[l].Kind \in {KindFlow, KindClusterFlow}
        /\ flow[l].Namespace = <<>> <=> flow[l].Kind = KindClusterFlow

(***************************************************************************)
(* Properties of the transferred and filtered counters over many Sends     *)
(***************************************************************************)
\* transferred-count plus filtered-count
LogTotal(m) == m["MLogTransfered"] + m["MLogFiltered"]

\* C18: transferred-count plus filtered-count advances by one exactly in the
\* steps that call Send on a record with a string access list, before any write
\* stage, and in no other step: a write that fails afterwards takes nothing
\* back.  In a running dispatch the sum is the number of Send calls made so far on
\* its record, when that record has a string access list.
C18_CountersCountAttempts ==
    /\ [][LogTotal(metrics') = LogTotal(metrics) +
            Cardinality({c \in Dispatches \X Reqs :
                            /\ SendStep(c[1], c[2])
                            /\ AccessList(dRec[c[1]]).t = "string"})]_vars
    /\ [](\A d \in SendDispatches :
            dPc[d] \in {"iter", "write", "close"} =>
                LogTotal(metrics) =
                    IF AccessList(dRec[d]).t = "string"
                    THEN Cardinality({l \in Reqs : dCalls[d][l] = 1})
                    ELSE 0)

\* C18 witness: two Sends have been made on a record with a string access list,
\* the write of one of them has failed, and both are counted
C18_Witness ==
    \E d \in Dispatches, l \in Reqs, o \in Reqs :
        /\ l # o
        /\ AccessList(dRec[d]).t = "string"
        /\ dCalls[d][l] = 1
        /\ dCalls[d][o] = 1
        /\ l \in writeFailed
        /\ o \notin writeFailed
        /\ dPc[d] = "iter"
        /\ LogTotal(metrics) = 2

(***************************************************************************)
(* Properties of Send's termination                                        *)
(***************************************************************************)
\* C19: no Send panics, whatever the record: building the permission-denied
\* payload never aborts the Send or the caller that dispatches to it.
C19_SendNeverPanics == ~crashed

(***************************************************************************)
(* Properties of Send's effect on the registry                             *)
(***************************************************************************)
\* C20: Send never calls Unregister itself (the registry only changes when a
\* scheduled goroutine runs), and it schedules one only in a step where a write
\* stage fails; so a listener none of whose writes has failed, authorized or
\* not, stays registered with no unregistration pending.
C20_SendKeepsRegistryUnlessWriteFails ==
    /\ [][registry' # registry =>
            \E l \in Reqs : unregGo'[l] = unregGo[l] - 1]_vars
    /\ [][\A l \in Reqs :
            unregGo'[l] > unregGo[l] => WriteFails(l)]_vars
    /\ [](\A l \in Reqs :
            l \notin writeFailed => l \in Registered /\ unregGo[l] = 0)

\* C20 witness: a listener the record's list does not name has been sent the
\* permission-denied payload, all three write stages succeeded, and it is still
\* registered with no unregistration pending
C20_Witness ==
    \E d \in Dispatches, l \in Reqs :
        /\ ~crashed
        /\ dPc[d] = "iter"
        /\ dCalls[d][l] = 1
        /\ AccessList(dRec[d]).t = "string"
        /\ ~Authorized(usrInfo[l], dRec[d])
        /\ metrics["MLogFiltered"] >= 1
        /\ l \notin writeFailed
        /\ unregGo[l] = 0
        /\ l \in Registered

====
